---- MODULE Spec2Model ----
(***************************************************************************)
(* Conway's Game of Life engine of src/src/universe.rs: the Universe       *)
(* struct (width, height, a FixedBitSet of cells) and its operations new,  *)
(* tick, render, set_cells, get_cells, get_index and live_neighbor_count.   *)
(*                                                                         *)
(* A u32 below 2^31 is modelled by itself; a u32 u of 2^31 or more is      *)
(* modelled by the negative integer u - 2^32, the same 32 bits read as     *)
(* two's complement, so that every u32 is an integer the model checker     *)
(* can hold.                                                               *)
(***************************************************************************)
EXTENDS Integers, Sequences, FiniteSets

VARIABLES
    status,   \* "none": no Universe built yet; "ready"; "panicked": a call panicked
    width,    \* Universe.width
    height,   \* Universe.height
    cells,    \* Universe.cells: bit index -> BOOLEAN, over 0..len-1
    op,       \* history: the last operation called ("none", "new", "tick",
              \* "set_cells", "get_cells", "render")
    pre,      \* history: the value of cells when the last operation was called
    coords,   \* history: the argument of the most recent set_cells call
    samples,  \* history: the Math.random() results drawn by the last operation
    gen,      \* history: tick() calls completed since the last new / set_cells
    view      \* history: what get_cells returned and render computed since
              \* the grid was last written

vars == <<status, width, height, cells, op, pre, coords, samples, gen, view>>

----------------------------------------------------------------------------
(* Bounds of the model.                                                    *)

MaxCells == 6        \* Spec: grids of at most this many cells
MaxCoord == 2        \* Spec: set_cells coordinates range over 0..MaxCoord
MaxGen == 2          \* tick() calls followed after a new / set_cells
SampleScale == 4     \* Math.random() yields k / SampleScale, k in 0..SampleScale-1
MaxSeedCells == 4    \* SpecRandom, SpecSeed: grids of at most this many cells
MaxList == 2         \* SpecSeed: set_cells lists of at most this many coordinates
MinBlockDim == 4     \* SpecBlock: smallest width and height
MaxBlockDim == 5     \* SpecBlock: largest width and height
MinBlinkerDim == 5   \* SpecBlinker: smallest width and height
MaxBlinkerDim == 6   \* SpecBlinker: largest width and height
MaxTorusCells == 12  \* SpecTorus: largest number of cells
MaxApiCells == 4     \* SpecApi: grids of at most this many cells
MaxPixels == 6       \* SpecApi: render() surfaces of 0..MaxPixels pixels a side

----------------------------------------------------------------------------
(* Constants of the program.                                               *)

DEAD == FALSE
ALIVE == TRUE

U32Bits == 32

\* The smallest dimension whose square does not fit a u32.
OverflowDim == 2 ^ (U32Bits \div 2)

----------------------------------------------------------------------------
(* u32 arithmetic, computed on bytes so that no intermediate value leaves  *)
(* the range of the model checker's integers.                              *)

Byte(x, i) == (x \div (256 ^ i)) % 256

\* The four low byte columns of the schoolbook product a * b, with carries,
\* and the sum of everything above bit 31.
MulColumns(a, b) ==
    LET c0 == Byte(a, 0) * Byte(b, 0)
        c1 == Byte(a, 0) * Byte(b, 1) + Byte(a, 1) * Byte(b, 0) + (c0 \div 256)
        c2 == Byte(a, 0) * Byte(b, 2) + Byte(a, 1) * Byte(b, 1)
              + Byte(a, 2) * Byte(b, 0) + (c1 \div 256)
        c3 == Byte(a, 0) * Byte(b, 3) + Byte(a, 1) * Byte(b, 2)
              + Byte(a, 2) * Byte(b, 1) + Byte(a, 3) * Byte(b, 0) + (c2 \div 256)
        high == (c3 \div 256)
                + Byte(a, 1) * Byte(b, 3) + Byte(a, 2) * Byte(b, 2)
                + Byte(a, 3) * Byte(b, 1) + Byte(a, 2) * Byte(b, 3)
                + Byte(a, 3) * Byte(b, 2) + Byte(a, 3) * Byte(b, 3)
    IN  [b0 |-> c0 % 256, b1 |-> c1 % 256, b2 |-> c2 % 256, b3 |-> c3 % 256,
         high |-> high]

\* Operands this small give a product and a sum that stay between -2^31
\* and 2^31, where the integer operation is the u32 operation on the bits.
SmallLimit == 2 ^ ((U32Bits \div 2) - 1)

SmallU32(a, b) ==
    -SmallLimit < a /\ a < SmallLimit /\ -SmallLimit < b /\ b < SmallLimit

\* The u32 with the low bytes b0..b3.
FromBytes(b0, b1, b2, b3) ==
    b0 + 256 * b1 + (256 ^ 2) * b2
    + (256 ^ 3) * (IF b3 >= 128 THEN b3 - 256 ELSE b3)

\* a * b on u32 in a build without overflow checks: the low 32 bits.
WrappingMulU32(a, b) ==
    IF SmallU32(a, b) THEN a * b
    ELSE LET m == MulColumns(a, b)
         IN  FromBytes(m.b0, m.b1, m.b2, m.b3)

\* a * b does not fit a u32 (a panic in a build with overflow checks).
MulOverflowsU32(a, b) == MulColumns(a, b).high > 0

\* a + b on u32, the low 32 bits.
WrappingAddU32(a, b) ==
    IF SmallU32(a, b) THEN a + b
    ELSE LET half == 2 ^ (U32Bits \div 2)
             lo == (a % half) + (b % half)
             hi == ((a \div half) + (b \div half) + (lo \div half)) % half
         IN  (IF 2 * hi >= half THEN hi - half ELSE hi) * half + (lo % half)

\* a + b does not fit a u32: both operands are 2^31 or more, or one is and
\* the sum of the bits does not come out as 2^31 or more.
AddOverflowsU32(a, b) ==
    \/ a < 0 /\ b < 0
    \/ (a < 0) # (b < 0) /\ WrappingAddU32(a, b) >= 0

\* a % m on u32, for 0 < m < 2^15: 2^32 = (2^16)^2 is reduced modulo m first.
RemU32(a, m) ==
    IF a >= 0 THEN a % m
    ELSE LET r == (2 ^ (U32Bits \div 2)) % m
         IN  ((a % m) + ((r * r) % m)) % m

\* a < b on u32.
LessU32(a, b) == IF (a < 0) = (b < 0) THEN a < b ELSE b < 0

\* a - b on u32, the low 32 bits.
WrappingSubU32(a, b) ==
    IF SmallU32(a, b) THEN a - b
    ELSE LET half == 2 ^ (U32Bits \div 2)
             lo == (a % half) - (b % half)
             hi == ((a \div half) - (b \div half) + (lo \div half)) % half
         IN  (IF 2 * hi >= half THEN hi - half ELSE hi) * half + (lo % half)

\* a - b is below zero (a panic in a build with overflow checks).
SubOverflowsU32(a, b) == LessU32(a, b)

\* Bit j of the u32 x.
TestBit(x, j) == IF j = U32Bits - 1 THEN x < 0 ELSE (x \div (2 ^ j)) % 2 = 1

\* Long division of the u32 x by m >= 2, bit by bit from bit j down: r is
\* the remainder and q the quotient of the bits above j.
RECURSIVE DivFrom(_, _, _, _, _)
DivFrom(x, m, j, r, q) ==
    IF j < 0 THEN q
    ELSE LET r2 == 2 * r + (IF TestBit(x, j) THEN 1 ELSE 0)
         IN  IF r2 >= m THEN DivFrom(x, m, j - 1, r2 - m, 2 * q + 1)
             ELSE DivFrom(x, m, j - 1, r2, 2 * q)

\* x / m on u32, for 0 < m <= 2^16.
DivU32(x, m) == IF m = 1 THEN x ELSE DivFrom(x, m, U32Bits - 1, 0, 0)

\* The f64 a u32 converts to is that number exactly; it is held as its
\* two 16-bit digits, hi * 2^16 + lo.
AsF64(u) ==
    LET half == 2 ^ (U32Bits \div 2)
    IN  [hi |-> (u \div half) % half, lo |-> u % half]

\* f64::min of two such numbers.
MinF64(x, y) ==
    IF x.hi < y.hi \/ (x.hi = y.hi /\ x.lo <= y.lo) THEN x ELSE y

----------------------------------------------------------------------------
(* FixedBitSet, as universe.rs uses it.                                    *)

\* FixedBitSet::with_capacity(n): n bits, all clear.
WithCapacity(n) == [i \in 0..(n - 1) |-> FALSE]

\* FixedBitSet::len()
BitLen(bits) == Cardinality(DOMAIN bits)

\* bits[i]: a bit outside the capacity reads as false.
Contains(bits, i) == i \in DOMAIN bits /\ bits[i]

\* FixedBitSet::set(i, v) panics unless i < len.
SetInBounds(bits, i) == i \in DOMAIN bits

\* Faulty variant of SetBit: the bit is flipped, whatever v is.
SetBitToggle(bits, i, v) == [bits EXCEPT ![i] = ~bits[i]]

SetBit(bits, i, v) == [bits EXCEPT ![i] = v]

\* FixedBitSet::clear(): every bit cleared, the length kept.
Clear(bits) == [i \in DOMAIN bits |-> FALSE]

\* The u32 whose bit j is bit 32 * block + j of the set, from bit j up.
RECURSIVE BlockFrom(_, _, _)
BlockFrom(bits, block, j) ==
    IF j >= U32Bits THEN 0
    ELSE (IF ~Contains(bits, U32Bits * block + j) THEN 0
          ELSE IF j = U32Bits - 1 THEN -2 * (2 ^ (j - 1))
          ELSE 2 ^ j)
         + BlockFrom(bits, block, j + 1)

\* FixedBitSet::as_slice(): the blocks of the set, 32 bits each, the last
\* one padded with clear bits.
AsSlice(bits) ==
    [k \in 1..((BitLen(bits) + U32Bits - 1) \div U32Bits) |->
        BlockFrom(bits, k - 1, 0)]

\* Nothing read or rendered yet.
NoView ==
    [read |-> FALSE, words |-> <<>>,
     rendered |-> FALSE, surface |-> <<0, 0>>, cell_size |-> AsF64(0)]

----------------------------------------------------------------------------
(* Universe::new                                                           *)

Samples == 0..(SampleScale - 1)

\* js_sys::Math::random() < 0.5, for the sample s / SampleScale.
LessThanHalf(s) == 2 * s < SampleScale

\* Faulty variant of SeedCell: the two branches exchanged.
SeedCellFlipped(s) == IF LessThanHalf(s) THEN ALIVE ELSE DEAD

\* The value new() stores for a cell whose sample is s.
SeedCell(s) == IF LessThanHalf(s) THEN DEAD ELSE ALIVE

\* new(w, h), its random samples drawn from S. A build with overflow checks
\* panics when w * h overflows; a build without them wraps the product.
New(w, h, S) ==
    /\ status = "none"
    /\ LET size == WrappingMulU32(w, h)
       IN  \E checked \in BOOLEAN, draws \in [0..(size - 1) -> S] :
             IF checked /\ MulOverflowsU32(w, h)
             THEN /\ status' = "panicked"
                  /\ samples' = WithCapacity(0)
                  /\ UNCHANGED <<width, height, cells>>
             ELSE /\ status' = "ready"
                  /\ width' = w
                  /\ height' = h
                  /\ cells' = [i \in 0..(size - 1) |-> SeedCell(draws[i])]
                  /\ samples' = draws
    /\ op' = "new"
    /\ pre' = cells
    /\ coords' = <<>>
    /\ gen' = 0
    /\ view' = NoView

----------------------------------------------------------------------------
(* Universe::get_index, Universe::live_neighbor_count                      *)

GetIndex(row, column) == WrappingAddU32(WrappingMulU32(row, width), column)

\* The number of values delta_row (delta_col) runs through.
MooreSpan == 3

\* Faulty variant of DeltaRows: 1 where height - 1 stands for -1.
DeltaRowsDownTwice == <<1, 0, 1>>

\* The values delta_row and delta_col run through, in order.
DeltaRows == <<height - 1, 0, 1>>

\* Faulty variant of DeltaCols: 1 where width - 1 stands for -1.
DeltaColsRightTwice == <<1, 0, 1>>

DeltaCols == <<width - 1, 0, 1>>

\* neighbor_row and neighbor_col of the loop body.
NeighborRow(row, delta_row) == RemU32(WrappingAddU32(row, delta_row), height)

NeighborCol(column, delta_col) == RemU32(WrappingAddU32(column, delta_col), width)

\* Faulty variant of NeighborTerm: the (0, 0) pair is not skipped.
NeighborTermCountsSelf(bits, row, column, delta_row, delta_col) ==
    LET neighbor_row == NeighborRow(row, delta_row)
        neighbor_col == NeighborCol(column, delta_col)
    IN  IF Contains(bits, GetIndex(neighbor_row, neighbor_col)) THEN 1 ELSE 0

\* What the loop body adds to count for one delta_row and delta_col.
NeighborTerm(bits, row, column, delta_row, delta_col) ==
    IF delta_row = 0 /\ delta_col = 0
    THEN 0
    ELSE LET neighbor_row == NeighborRow(row, delta_row)
             neighbor_col == NeighborCol(column, delta_col)
         IN  IF Contains(bits, GetIndex(neighbor_row, neighbor_col)) THEN 1 ELSE 0

\* The two nested loops from their k-th iteration on (k in 1..9).
RECURSIVE CountFrom(_, _, _, _)
CountFrom(bits, row, column, k) ==
    IF k > 9 THEN 0
    ELSE NeighborTerm(bits, row, column,
                      DeltaRows[((k - 1) \div 3) + 1], DeltaCols[((k - 1) % 3) + 1])
         + CountFrom(bits, row, column, k + 1)

LiveNeighborCount(bits, row, column) == CountFrom(bits, row, column, 1)

----------------------------------------------------------------------------
(* Universe::tick                                                          *)

\* Faulty variant of NextState: overpopulation starts at 5 live neighbors.
NextStateLateOverpopulation(cell, live_neighbors) ==
    IF cell = ALIVE /\ live_neighbors < 2 THEN DEAD
    ELSE IF cell = ALIVE /\ live_neighbors \in {2, 3} THEN ALIVE
    ELSE IF cell = ALIVE /\ live_neighbors > 4 THEN DEAD
    ELSE IF cell = DEAD /\ live_neighbors = 3 THEN ALIVE
    ELSE cell

\* Faulty variant of NextState: the last arm yields ALIVE, not the cell.
NextStateOtherwiseAlive(cell, live_neighbors) ==
    IF cell = ALIVE /\ live_neighbors < 2 THEN DEAD
    ELSE IF cell = ALIVE /\ live_neighbors \in {2, 3} THEN ALIVE
    ELSE IF cell = ALIVE /\ live_neighbors > 3 THEN DEAD
    ELSE IF cell = DEAD /\ live_neighbors = 3 THEN ALIVE
    ELSE ALIVE

\* The match of tick, arm by arm.
NextState(cell, live_neighbors) ==
    IF cell = ALIVE /\ live_neighbors < 2 THEN DEAD
    ELSE IF cell = ALIVE /\ live_neighbors \in {2, 3} THEN ALIVE
    ELSE IF cell = ALIVE /\ live_neighbors > 3 THEN DEAD
    ELSE IF cell = DEAD /\ live_neighbors = 3 THEN ALIVE
    ELSE cell

\* Faulty variant of TickCell: reads the generation being written.
TickCellInPlace(cur, next, row, col) ==
    LET idx == GetIndex(row, col)
    IN  SetBit(next, idx,
               NextState(Contains(next, idx), LiveNeighborCount(next, row, col)))

\* One iteration of the loop body: reads self.cells (cur), writes next.
TickCell(cur, next, row, col) ==
    LET idx == GetIndex(row, col)
    IN  SetBit(next, idx,
               NextState(Contains(cur, idx), LiveNeighborCount(cur, row, col)))

\* The two loops of tick from (row, col) on. next.set panics on an index
\* outside the bit set; live_neighbor_count has no effect of its own, so the
\* iteration panics exactly when the index is out of bounds.
RECURSIVE TickFrom(_, _, _, _)
TickFrom(cur, next, row, col) ==
    IF row >= height THEN [panicked |-> FALSE, next |-> next]
    ELSE IF col >= width THEN TickFrom(cur, next, row + 1, 0)
    ELSE IF ~SetInBounds(next, GetIndex(row, col))
         THEN [panicked |-> TRUE, next |-> next]
    ELSE TickFrom(cur, TickCell(cur, next, row, col), row, col + 1)

Tick ==
    /\ status = "ready"
    /\ gen < MaxGen
    /\ LET r == TickFrom(cells, cells, 0, 0)
       IN  /\ status' = IF r.panicked THEN "panicked" ELSE "ready"
           /\ cells' = IF r.panicked THEN cells ELSE r.next
    /\ op' = "tick"
    /\ pre' = cells
    /\ samples' = WithCapacity(0)
    /\ gen' = gen + 1
    /\ view' = NoView
    /\ UNCHANGED <<width, height, coords>>

----------------------------------------------------------------------------
(* Universe::set_cells                                                     *)

\* Faulty variant of ClearCells: the bits are left as they were.
ClearSkipped(bits) == bits

\* self.cells.clear()
ClearCells(bits) == Clear(bits)

\* The loop of set_cells from the k-th coordinate on; it works on self.cells
\* itself, so a panic leaves the bits set so far.
RECURSIVE SetFrom(_, _, _)
SetFrom(bits, list, k) ==
    IF k > Len(list) THEN [panicked |-> FALSE, cells |-> bits]
    ELSE LET idx == GetIndex(list[k][1], list[k][2])
         IN  IF ~SetInBounds(bits, idx)
             THEN [panicked |-> TRUE, cells |-> bits]
             ELSE SetFrom(SetBit(bits, idx, ALIVE), list, k + 1)

SetCells(list) ==
    /\ status = "ready"
    /\ LET r == SetFrom(ClearCells(cells), list, 1)
       IN  /\ status' = IF r.panicked THEN "panicked" ELSE "ready"
           /\ cells' = r.cells
    /\ op' = "set_cells"
    /\ pre' = cells
    /\ coords' = list
    /\ samples' = WithCapacity(0)
    /\ gen' = 0
    /\ view' = NoView
    /\ UNCHANGED <<width, height>>

----------------------------------------------------------------------------
(* Universe::get_cells                                                     *)

GetCells ==
    /\ status = "ready"
    /\ view' = [view EXCEPT !.read = TRUE, !.words = AsSlice(cells)]
    /\ op' = "get_cells"
    /\ pre' = cells
    /\ samples' = WithCapacity(0)
    /\ UNCHANGED <<status, width, height, cells, coords, gen>>

----------------------------------------------------------------------------
(* Universe::render; the canvas is taken to exist, and drawing on it reads *)
(* the Universe without changing it.                                       *)

\* (pixels - 2 * dimension) / dimension of the cell_size expression.
PixelsPerCell(pixels, dimension) ==
    DivU32(WrappingSubU32(pixels, WrappingMulU32(2, dimension)), dimension)

\* The u32 arithmetic of PixelsPerCell overflows.
PixelsPerCellOverflows(pixels, dimension) ==
    \/ MulOverflowsU32(2, dimension)
    \/ SubOverflowsU32(pixels, WrappingMulU32(2, dimension))

CellSize(pw, ph) ==
    MinF64(AsF64(PixelsPerCell(pw, width)), AsF64(PixelsPerCell(ph, height)))

\* Faulty variant of Render: the surface size is stored as the grid size.
RenderResizing(pw, ph) ==
    /\ status = "ready"
    /\ width' = pw
    /\ height' = ph
    /\ view' = [view EXCEPT !.rendered = TRUE, !.surface = <<pw, ph>>]
    /\ op' = "render"
    /\ pre' = cells
    /\ samples' = WithCapacity(0)
    /\ UNCHANGED <<status, cells, coords, gen>>

\* render(pw, ph). The division panics on a zero dimension; an overflow
\* panics in a build with overflow checks and wraps in one without.
Render(pw, ph) ==
    /\ status = "ready"
    /\ \E checked \in BOOLEAN :
         IF \/ width = 0
            \/ height = 0
            \/ checked /\ PixelsPerCellOverflows(pw, width)
            \/ checked /\ PixelsPerCellOverflows(ph, height)
         THEN /\ status' = "panicked"
              /\ view' = [view EXCEPT !.surface = <<pw, ph>>]
         ELSE /\ status' = "ready"
              /\ view' = [view EXCEPT !.rendered = TRUE,
                                      !.surface = <<pw, ph>>,
                                      !.cell_size = CellSize(pw, ph)]
    /\ op' = "render"
    /\ pre' = cells
    /\ samples' = WithCapacity(0)
    /\ UNCHANGED <<width, height, cells, coords, gen>>

----------------------------------------------------------------------------
(* Specifications.                                                         *)

Init ==
    /\ status = "none"
    /\ width = 0
    /\ height = 0
    /\ cells = WithCapacity(0)
    /\ op = "none"
    /\ pre = WithCapacity(0)
    /\ coords = <<>>
    /\ samples = WithCapacity(0)
    /\ gen = 0
    /\ view = NoView

\* One sample below one half and one not below it.
CoinSamples == {0, SampleScale - 1}

\* Grids of at most n cells, the zero-sized ones among them.
DimsUpTo(n) == {d \in (0..n) \X (0..n) : d[1] * d[2] <= n}

\* The lists of at most n coordinates over the set c.
ListsUpTo(c, n) == UNION {[1..k -> c] : k \in 0..n}

\* Spec: any sequence of calls on a small grid, or on the grid whose cell
\* count overflows a u32.
Dims == DimsUpTo(MaxCells) \cup {<<OverflowDim, OverflowDim>>}

Coords == (0..MaxCoord) \X (0..MaxCoord)

Next ==
    \/ \E d \in Dims : New(d[1], d[2], CoinSamples)
    \/ Tick
    \/ \E list \in ListsUpTo(Coords, 1) : SetCells(list)

Spec == Init /\ [][Next]_vars

\* SpecRandom: construction alone, over every sample value.
RandomNext == \E d \in DimsUpTo(MaxSeedCells) : New(d[1], d[2], Samples)

SpecRandom == Init /\ [][RandomNext]_vars

\* SpecSeed: construction of a randomly seeded grid, then one set_cells whose
\* coordinates range over the grid and one row and one column beyond it.
SeedCoords == (0..height) \X (0..width)

SeedNext ==
    \/ \E d \in DimsUpTo(MaxSeedCells) : New(d[1], d[2], CoinSamples)
    \/ /\ op = "new"
       /\ \E list \in ListsUpTo(SeedCoords, MaxList) : SetCells(list)

SpecSeed == Init /\ [][SeedNext]_vars

\* SpecBlock: a grid of at least MinBlockDim by MinBlockDim cells, seeded
\* uniformly, on which 2x2 blocks are placed at any position and ticked.
Block(r, c) ==
    << <<r, c>>, <<r, (c + 1) % width>>,
       <<(r + 1) % height, c>>, <<(r + 1) % height, (c + 1) % width>> >>

BlockNext ==
    \/ \E w, h \in MinBlockDim..MaxBlockDim, s \in CoinSamples : New(w, h, {s})
    \/ \E r \in 0..(height - 1), c \in 0..(width - 1) : SetCells(Block(r, c))
    \/ Tick

SpecBlock == Init /\ [][BlockNext]_vars

\* SpecBlinker: a grid of at least MinBlinkerDim by MinBlinkerDim cells,
\* seeded uniformly, then seeded with one blinker (three cells in a row or
\* in a column around (r, c), wrapping around the edges) and ticked.
Blinker(r, c, horizontal) ==
    IF horizontal
    THEN << <<r, (c + width - 1) % width>>, <<r, c>>, <<r, (c + 1) % width>> >>
    ELSE << <<(r + height - 1) % height, c>>, <<r, c>>, <<(r + 1) % height, c>> >>

BlinkerNext ==
    \/ \E w, h \in MinBlinkerDim..MaxBlinkerDim, s \in CoinSamples : New(w, h, {s})
    \/ /\ op = "new"
       /\ \E r \in 0..(height - 1), c \in 0..(width - 1), horizontal \in BOOLEAN :
            SetCells(Blinker(r, c, horizontal))
    \/ Tick

SpecBlinker == Init /\ [][BlinkerNext]_vars

\* SpecTorus: every grid of at least MooreSpan by MooreSpan and at most
\* MaxTorusCells cells, ticked once.
TorusDims ==
    {d \in (MooreSpan..(2 * MooreSpan)) \X (MooreSpan..(2 * MooreSpan)) :
        d[1] * d[2] <= MaxTorusCells}

TorusNext ==
    \/ \E d \in TorusDims : New(d[1], d[2], CoinSamples)
    \/ op = "new" /\ Tick

SpecTorus == Init /\ [][TorusNext]_vars

\* SpecApi: every call of the interface, in any order, on a uniformly
\* seeded small grid or on the grid whose cell count overflows a u32; the
\* surfaces rendered on are square.
ApiDims == DimsUpTo(MaxApiCells) \cup {<<OverflowDim, OverflowDim>>}

ApiNext ==
    \/ \E d \in ApiDims, s \in CoinSamples : New(d[1], d[2], {s})
    \/ Tick
    \/ \E list \in ListsUpTo(Coords, 1) : SetCells(list)
    \/ GetCells
    \/ \E p \in 0..MaxPixels : Render(p, p)

SpecApi == Init /\ [][ApiNext]_vars

\* SpecRender: a uniformly seeded small grid, or the grid whose cell count
\* overflows a u32, rendered on every surface of up to MaxPixels pixels a
\* side.
RenderNext ==
    \/ \E d \in ApiDims, s \in CoinSamples : New(d[1], d[2], {s})
    \/ \E pw, ph \in 0..MaxPixels : Render(pw, ph)

SpecRender == Init /\ [][RenderNext]_vars

----------------------------------------------------------------------------
(* Vocabulary of the properties.                                           *)

\* The cell at (row, col) of a grid, in row-major order.
CellAt(bits, row, col) == bits[row * width + col]

Rows == 0..(height - 1)
Cols == 0..(width - 1)

\* A tick() call has just returned.
Ticked == op = "tick" /\ status = "ready"

InRange(p) == p[1] < height /\ p[2] < width

AllInRange(list) == \A k \in 1..Len(list) : InRange(list[k])

Listed(list, row, col) == \E k \in 1..Len(list) : list[k] = <<row, col>>

\* The eight Moore offsets, and the number of them that lead from (row, col)
\* to an alive cell of the torus.
MooreOffsets == {d \in {-1, 0, 1} \X {-1, 0, 1} : d # <<0, 0>>}

MooreSum(bits, row, col) ==
    Cardinality({d \in MooreOffsets :
        CellAt(bits, (row + d[1] + height) % height,
                     (col + d[2] + width) % width) = ALIVE})

\* The product width * height fits a u32.
SmallGrid == width < OverflowDim /\ height < OverflowDim

----------------------------------------------------------------------------
(* Properties.                                                             *)

\* C1: tick() is a synchronous update: after it every cell (r,c) holds the
\* rule's value for the pre-tick value of (r,c) and the live-neighbor count
\* taken from the pre-tick generation, and the grid is replaced as a whole.
TickIsSynchronous ==
    Ticked =>
        /\ DOMAIN cells = DOMAIN pre
        /\ \A row \in Rows, col \in Cols :
             CellAt(cells, row, col)
               = NextState(CellAt(pre, row, col), LiveNeighborCount(pre, row, col))

\* C1 witness: a tick on a grid of at least 2x2 cells that changed some cells
\* and kept others, leaving a cell alive.
TickChangedGrid ==
    /\ Ticked /\ width >= 2 /\ height >= 2
    /\ \E i, j, k \in DOMAIN cells :
         cells[i] # pre[i] /\ cells[j] = pre[j] /\ cells[k] = ALIVE

\* C2: the rule tick() applies is total and is the table: a cell is alive
\* after the tick iff it was alive with 2 or 3 live neighbors or dead with 3.
TickMatchesRuleTable ==
    Ticked =>
        \A row \in Rows, col \in Cols :
          LET n == LiveNeighborCount(pre, row, col)
          IN  /\ n \in 0..8
              /\ CellAt(cells, row, col) = ALIVE
                   <=> \/ CellAt(pre, row, col) = ALIVE /\ n \in {2, 3}
                       \/ CellAt(pre, row, col) = DEAD /\ n = 3

\* C2 witness: one tick in which an alive cell with more than 3 live neighbors
\* died and a dead cell with exactly 3 was born.
RuleArmsTaken ==
    /\ Ticked
    /\ \E r1, r2 \in Rows, c1, c2 \in Cols :
         /\ CellAt(pre, r1, c1) = ALIVE /\ LiveNeighborCount(pre, r1, c1) > 3
         /\ CellAt(cells, r1, c1) = DEAD
         /\ CellAt(pre, r2, c2) = DEAD /\ LiveNeighborCount(pre, r2, c2) = 3
         /\ CellAt(cells, r2, c2) = ALIVE

\* C3: on every grid with W >= 1 and H >= 1, live_neighbor_count(row, col) is
\* the sum over the eight Moore offsets of the alive bit of the cell the
\* offset leads to on the torus, each offset counted.
NeighborCountIsMooreSum ==
    (status = "ready" /\ SmallGrid /\ width >= 1 /\ height >= 1) =>
        \A row \in Rows, col \in Cols :
          LiveNeighborCount(cells, row, col) = MooreSum(cells, row, col)

\* C4, as the specification states it: a cell is seeded alive iff its sample
\* is below one half.
SeedAliveBelowHalf ==
    (op = "new" /\ status = "ready") =>
        \A i \in DOMAIN cells : cells[i] = ALIVE <=> 2 * samples[i] < SampleScale

\* C4, amended: new() draws one sample per cell index 0..width*height-1 and
\* the cell is dead if its sample is below one half and alive otherwise.
SeedAliveFromHalf ==
    (op = "new" /\ status = "ready") =>
        /\ DOMAIN samples = 0..(width * height - 1)
        /\ DOMAIN cells = DOMAIN samples
        /\ \A i \in DOMAIN cells : cells[i] = ALIVE <=> 2 * samples[i] >= SampleScale

\* C4 witness: a construction that drew a sample of exactly one half for a
\* cell it made alive and a sample below one half for a cell it made dead.
SeededAtTheBoundary ==
    /\ op = "new" /\ status = "ready"
    /\ \E i, j \in DOMAIN cells :
         /\ 2 * samples[i] = SampleScale /\ cells[i] = ALIVE
         /\ 2 * samples[j] < SampleScale /\ cells[j] = DEAD

\* C5: after set_cells(L) with every coordinate of L in range, the cell at
\* (r,c) is alive iff (r,c) occurs in L, whatever the grid held before.
BulkSeedRoundTrip ==
    (op = "set_cells" /\ AllInRange(coords)) =>
        /\ status = "ready"
        /\ \A row \in Rows, col \in Cols :
             CellAt(cells, row, col) = ALIVE <=> Listed(coords, row, col)

\* C5 witness: a set_cells of two different in-range coordinates on a grid
\* where an unlisted cell was alive and a listed cell was dead before.
BulkSeedOverwrote ==
    /\ op = "set_cells" /\ status = "ready" /\ AllInRange(coords)
    /\ Len(coords) = 2 /\ coords[1] # coords[2]
    /\ \E row \in Rows, col \in Cols :
         CellAt(pre, row, col) = ALIVE /\ ~Listed(coords, row, col)
    /\ CellAt(pre, coords[1][1], coords[1][2]) = DEAD

\* C6: whenever a Universe exists, the number of cells stored is the product
\* width * height (stated by division: the product itself may exceed 2^32).
CellCountIsProduct ==
    status = "ready" =>
        IF width = 0 THEN BitLen(cells) = 0
        ELSE BitLen(cells) % width = 0 /\ BitLen(cells) \div width = height

\* C7: no Universe with a zero width or height is ever produced.
NoZeroDimension == status = "ready" => (width > 0 /\ height > 0)

\* C8: set_cells(L) panics whenever L holds a coordinate with row >= height
\* or col >= width.
OutOfRangeSeedPanics ==
    (op = "set_cells" /\ ~AllInRange(coords)) => status = "panicked"

\* C10: on a grid with W >= 4 and H >= 4, after set_cells of a 2x2 block at
\* any position (wrapping around the edges) the grid is the seeded block
\* after every number of ticks.
BlockList == \E r \in Rows, c \in Cols : coords = Block(r, c)

BlockIsStillLife ==
    (op \in {"set_cells", "tick"} /\ width >= 4 /\ height >= 4 /\ BlockList) =>
        /\ status = "ready"
        /\ \A row \in Rows, col \in Cols :
             CellAt(cells, row, col) = ALIVE <=> Listed(coords, row, col)

\* C10 witness: MaxGen ticks after seeding a block whose first cell is the
\* last cell of the grid, so that it straddles both wrap-around edges.
BlockTickedAcrossEdges ==
    /\ op = "tick" /\ status = "ready" /\ gen = MaxGen
    /\ width >= 4 /\ height >= 4 /\ BlockList
    /\ coords[1] = <<height - 1, width - 1>>
    /\ CellAt(cells, 0, 0) = ALIVE


\* The grid in which exactly the cells of a list of coordinates are alive.
GridOf(list) ==
    [i \in DOMAIN cells |->
        \E k \in 1..Len(list) : list[k][1] * width + list[k][2] = i]

BlinkerList ==
    \E r \in Rows, c \in Cols, horizontal \in BOOLEAN : coords = Blinker(r, c, horizontal)

\* The three-cell line perpendicular to a blinker, through the same centre.
Turned(list) == Blinker(list[2][1], list[2][2], list[1][1] # list[2][1])

\* C11: on a grid with W >= 5 and H >= 5, after set_cells of a blinker the
\* grid after an odd number of ticks is the perpendicular line through the
\* same centre, which differs from the seeded grid, and after an even number
\* of ticks it is the seeded grid.
BlinkerOscillates ==
    (op \in {"set_cells", "tick"} /\ width >= 5 /\ height >= 5 /\ BlinkerList) =>
        /\ status = "ready"
        /\ IF gen % 2 = 0
           THEN cells = GridOf(coords)
           ELSE cells = GridOf(Turned(coords)) /\ cells # GridOf(coords)

\* C11 witness: two ticks after seeding a blinker centred on cell (0, 0), so
\* that it wraps around an edge, the grid is the seeded one again and the
\* grid one tick earlier was the perpendicular line.
BlinkerCameBack ==
    /\ op = "tick" /\ status = "ready" /\ gen = 2
    /\ width >= 5 /\ height >= 5 /\ BlinkerList /\ coords[2] = <<0, 0>>
    /\ cells = GridOf(coords)
    /\ pre = GridOf(Turned(coords))


AllDead(bits) == \A i \in DOMAIN bits : bits[i] = DEAD

\* C12: on every grid, a tick() of a grid whose cells are all dead leaves
\* every cell dead.
DeadGridStaysDead == (op = "tick" /\ AllDead(pre)) => AllDead(cells)

\* C12 witness: a grid of at least 2x2 cells, all dead, has been ticked
\* MaxGen times and every cell is dead.
DeadGridTicked ==
    /\ Ticked /\ gen = MaxGen /\ coords = <<>> /\ width >= 2 /\ height >= 2
    /\ AllDead(pre) /\ AllDead(cells)


\* The u32 2^32 - k, for k > 0.
TopU32(k) == -k

\* Arguments tried for live_neighbor_count: the rows and columns of the
\* grid, those one wrap beyond it, and two at the top of the u32 range.
ProbeRows == (0..(2 * height - 1)) \cup {TopU32(1), TopU32(height + 1)}
ProbeCols == (0..(2 * width - 1)) \cup {TopU32(1), TopU32(width + 1)}

\* No row + delta_row (column + delta_col) of the loops overflows a u32.
RowSumsFit(row) == \A i \in 1..3 : ~AddOverflowsU32(row, DeltaRows[i])
ColSumsFit(column) == \A i \in 1..3 : ~AddOverflowsU32(column, DeltaCols[i])

\* A grid has just been built: new() yields every grid of its dimensions.
FreshGrid == op = "new" /\ status = "ready" /\ SmallGrid /\ width >= 1 /\ height >= 1

\* C13, as the specification states it: for every u32 pair (row, col), in
\* range or not, live_neighbor_count(row, col) equals
\* live_neighbor_count(row mod H, col mod W).
CountIsToroidal ==
    FreshGrid =>
        \A row \in ProbeRows, col \in ProbeCols :
          LiveNeighborCount(cells, row, col)
            = LiveNeighborCount(cells, RemU32(row, height), RemU32(col, width))

\* Below the overflow the equality does hold: for every (row, col) for
\* which no row + delta_row and no column + delta_col overflows a u32.
CountIsToroidalWithoutOverflow ==
    FreshGrid =>
        \A row \in ProbeRows, col \in ProbeCols :
          (RowSumsFit(row) /\ ColSumsFit(col)) =>
            LiveNeighborCount(cells, row, col)
              = LiveNeighborCount(cells, RemU32(row, height), RemU32(col, width))

\* The case above happens: on a grid of at least 2x2 cells, a row beyond the grid and a
\* column at the top of the u32 range whose sums all fit, with a count
\* that is neither 0 nor 8.
CountedOutOfRange ==
    /\ FreshGrid /\ width >= 2 /\ height >= 2
    /\ RowSumsFit(height + 1) /\ ColSumsFit(TopU32(width + 1))
    /\ LiveNeighborCount(cells, height + 1, TopU32(width + 1)) \in 1..7


\* get_index(row, column) overflows no u32 and lands in [0, width * height).
IndexIsSafe(row, column) ==
    /\ ~MulOverflowsU32(row, width)
    /\ ~AddOverflowsU32(WrappingMulU32(row, width), column)
    /\ GetIndex(row, column) >= 0
    /\ GetIndex(row, column) < width * height

\* Every step of the tick loops for cell (row, col) is free of overflow,
\* indexes inside the grid and counts at most 8 neighbours.
TickStepIsSafe(bits, row, col) ==
    /\ IndexIsSafe(row, col)
    /\ \A i \in 1..3, j \in 1..3 :
          /\ ~AddOverflowsU32(row, DeltaRows[i])
          /\ ~AddOverflowsU32(col, DeltaCols[j])
          /\ IndexIsSafe(NeighborRow(row, DeltaRows[i]),
                         NeighborCol(col, DeltaCols[j]))
    /\ LiveNeighborCount(bits, row, col) <= 8

\* C16: tick never fails on an engine built with width > 0 and height > 0:
\* it completes, and every index it computed lies in [0, width * height)
\* without u32 overflow and every neighbour count is at most 8.
TickNeverFails ==
    (op = "tick" /\ width > 0 /\ height > 0) =>
        /\ status = "ready"
        /\ \A row \in Rows, col \in Cols : TickStepIsSafe(pre, row, col)

\* On grids whose cell count fits a u32 the tick is safe.
SmallTickNeverFails == SmallGrid => TickNeverFails


\* The cells live_neighbor_count(row, column) reads: one per pair of deltas
\* that is not skipped.
ReadCells(row, column) ==
    {<<NeighborRow(row, DeltaRows[p[1]]), NeighborCol(column, DeltaCols[p[2]])>> :
        p \in {q \in (1..MooreSpan) \X (1..MooreSpan) :
                  ~(DeltaRows[q[1]] = 0 /\ DeltaCols[q[2]] = 0)}}

\* The Moore neighbours of (row, col) on the torus.
MooreCells(row, col) ==
    {<<(row + d[1] + height) % height, (col + d[2] + width) % width>> :
        d \in MooreOffsets}

\* C18: on a grid with W >= 3 and H >= 3, for every in-range (row, col) the
\* eight cells live_neighbor_count reads are pairwise distinct and none is
\* (row, col), and the count is the number of distinct alive Moore
\* neighbours of (row, col) on the torus.
NeighborsAreDistinct ==
    (status = "ready" /\ SmallGrid /\ width >= 3 /\ height >= 3) =>
        \A row \in Rows, col \in Cols :
          /\ Cardinality(ReadCells(row, col)) = 8
          /\ <<row, col>> \notin ReadCells(row, col)
          /\ ReadCells(row, col) = MooreCells(row, col)
          /\ LiveNeighborCount(cells, row, col)
               = Cardinality({p \in MooreCells(row, col) :
                                CellAt(cells, p[1], p[2]) = ALIVE})

\* C18 witness: on a 3x3 grid the corner cell (0,0) is alive, all eight
\* other cells, reached across both edges, are dead, and its count is 0;
\* the dead cell (1,1) counts exactly that one alive neighbour.
CornerNotCounted ==
    /\ status = "ready" /\ op = "new" /\ width = 3 /\ height = 3
    /\ CellAt(cells, 0, 0) = ALIVE
    /\ LiveNeighborCount(cells, 0, 0) = 0
    /\ LiveNeighborCount(cells, 1, 1) = 1
    /\ Cardinality(ReadCells(0, 0)) = 8


\* The coordinates a list holds.
CoordSet(list) == {list[k] : k \in 1..Len(list)}

\* The grid set_cells(list) leaves when called on the grid prior.
SetCellsResult(prior, list) == SetFrom(ClearCells(prior), list, 1).cells

\* C19: set_cells depends only on the set of listed coordinates: for an
\* in-range list, every list with the same coordinates (in any order, with
\* any duplicates) applied to any prior grid of the same dimensions gives
\* the same grid, and applying the list a second time changes nothing.
SeedDependsOnlyOnSet ==
    (op = "set_cells" /\ AllInRange(coords)) =>
        /\ status = "ready"
        /\ \A list \in ListsUpTo(CoordSet(coords), MaxList),
              prior \in [DOMAIN cells -> BOOLEAN] :
             CoordSet(list) = CoordSet(coords) =>
                 SetCellsResult(prior, list) = cells
        /\ SetCellsResult(cells, coords) = cells

\* C19 witness: set_cells of two different in-range coordinates changed the
\* grid, and the same coordinates in the other order, applied again, leave
\* this grid.
SeededInEitherOrder ==
    /\ op = "set_cells" /\ status = "ready" /\ AllInRange(coords)
    /\ Len(coords) = 2 /\ coords[1] # coords[2]
    /\ pre # cells
    /\ SetCellsResult(cells, <<coords[2], coords[1]>>) = cells
    /\ SetCellsResult(pre, <<coords[2], coords[1]>>) = cells


\* C14: the grid dimensions are fixed at construction: tick, set_cells,
\* get_cells and render leave width and height as they were.
DimensionsAreFixed ==
    [][op' \in {"tick", "set_cells", "get_cells", "render"} =>
          width' = width /\ height' = height]_vars

\* C14 witness: a grid of unequal dimensions has been seeded by set_cells,
\* ticked, rendered and read by get_cells, in this order.
DimensionsSurvivedCalls ==
    /\ status = "ready" /\ op = "get_cells"
    /\ view.read /\ view.rendered /\ gen >= 1 /\ coords # <<>>
    /\ width >= 1 /\ height >= 1 /\ width # height
    /\ BitLen(cells) = width * height

\* The number of 32-bit words that hold w * h bits; a width that is a
\* multiple of 32 is divided first, so that the product stays small.
WordsFor(w, h) ==
    IF w % U32Bits = 0 THEN (w \div U32Bits) * h
    ELSE (w * h + U32Bits - 1) \div U32Bits

\* C15: the view get_cells returns has exactly ceil(width * height / 32)
\* words, and bit row * width + col of the packed sequence is set iff the
\* cell (row, col) is alive.
PackedViewMatchesGrid ==
    op = "get_cells" =>
        /\ Len(view.words) = WordsFor(width, height)
        /\ \A row \in Rows, col \in Cols :
             LET i == row * width + col
             IN  TestBit(view.words[(i \div U32Bits) + 1], i % U32Bits)
                   <=> CellAt(cells, row, col) = ALIVE

\* On grids whose cell count fits a u32 the view is as stated.
SmallPackedViewMatchesGrid == SmallGrid => PackedViewMatchesGrid

\* The f64 x is the integer n.
NumberIs(x, n) == n >= 0 /\ x = AsF64(n)

Positive(x) == x.hi > 0 \/ x.lo > 0

\* The integer quotient of a by b > 0, rounded toward zero.
Quotient(a, b) == IF a >= 0 THEN a \div b ELSE -((-a) \div b)

SmallerOf(a, b) == IF a <= b THEN a ELSE b

\* C17: render(pw, ph) computes cell_size = min((pw - 2W) div W,
\* (ph - 2H) div H); the cell_size is negative or zero whenever pw < 3W or
\* ph < 3H, and positive only when pw >= 3W and ph >= 3H.
CellSizeAsStated ==
    (op = "render" /\ SmallGrid /\ width >= 1 /\ height >= 1) =>
        LET pw == view.surface[1]
            ph == view.surface[2]
        IN  /\ status = "ready"
            /\ NumberIs(view.cell_size,
                        SmallerOf(Quotient(pw - 2 * width, width),
                                  Quotient(ph - 2 * height, height)))
            /\ (pw < 3 * width \/ ph < 3 * height) => ~Positive(view.cell_size)
            /\ Positive(view.cell_size) => (pw >= 3 * width /\ ph >= 3 * height)

\* On a surface of at least 2W by 2H pixels the cell_size is as stated.
CellSizeWithoutUnderflow ==
    (view.surface[1] >= 2 * width /\ view.surface[2] >= 2 * height) =>
        CellSizeAsStated

====
